---- MODULE Spec2Model ----
(***************************************************************************)
(* wtforms.ext.django.fields: QuerySetSelectField.                         *)
(*                                                                         *)
(* A field is bound to a queryset (an ordered collection of model objects  *)
(* with integer primary keys).  Strings are modelled as sequences of       *)
(* one-character strings so that int() and the "%s" formatting of a        *)
(* primary key are computed, not assumed.                                  *)
(***************************************************************************)
EXTENDS Integers, Sequences, FiniteSets, TLC

VARIABLES queryset, allow_blank, label_attr, _data, _formdata,
          passes, last, prev, pc, submitted

vars == <<queryset, allow_blank, label_attr, _data, _formdata,
          passes, last, prev, pc, submitted>>

\* ---------------------------------------------------------------- bounds
MaxPk == 2
MaxLen == 3

\* ---------------------------------------------------------------- values
None == [kind |-> "None"]

PKs == 0..MaxPk

DigitChars == <<"0", "1", "2", "3", "4", "5", "6", "7", "8", "9">>

DigitSet == {DigitChars[i] : i \in 1..10}

DigitOf(c) == (CHOOSE i \in 1..10 : DigitChars[i] = c) - 1

RECURSIVE NatStr(_)
NatStr(n) == IF n < 10 THEN <<DigitChars[n + 1]>>
             ELSE NatStr(n \div 10) \o <<DigitChars[(n % 10) + 1]>>

\* "%s" % pk, as html_params and the option template format a value
str(n) == IF n < 0 THEN <<"-">> \o NatStr(-n) ELSE NatStr(n)

RECURSIVE LStrip(_)
LStrip(s) == IF s # <<>> /\ Head(s) = " " THEN LStrip(Tail(s)) ELSE s

RECURSIVE RStrip(_)
RStrip(s) == IF s # <<>> /\ s[Len(s)] = " "
             THEN RStrip(SubSeq(s, 1, Len(s) - 1)) ELSE s

RECURSIVE DigitsVal(_)
DigitsVal(s) == IF s = <<>> THEN 0
                ELSE 10 * DigitsVal(SubSeq(s, 1, Len(s) - 1)) + DigitOf(s[Len(s)])

AllDigits(s) == s # <<>> /\ \A i \in 1..Len(s) : s[i] \in DigitSet

\* int(s) of a string: surrounding blanks are dropped, one optional sign,
\* then at least one decimal digit; anything else raises ValueError.
int_lenient(s) ==
    LET t == SelectSeq(s, LAMBDA c : c \in DigitSet)
    IN  [kind |-> "int", val |-> DigitsVal(t)]

int(s) ==
    LET t == RStrip(LStrip(s))
        signed == t # <<>> /\ Head(t) \in {"+", "-"}
        body == IF signed THEN Tail(t) ELSE t
    IN  IF AllDigits(body)
        THEN [kind |-> "int",
              val |-> IF signed /\ Head(t) = "-" THEN -DigitsVal(body)
                      ELSE DigitsVal(body)]
        ELSE [kind |-> "ValueError"]

\* the reserved token of the blank choice, '__None'
BlankToken == <<"_", "_", "N", "o", "n", "e">>

\* a model instance; name is the attribute label_attr may point to, and is
\* empty (falsy) for the object with primary key 0
Obj(p) == [kind |-> "Model", pk |-> p,
           name |-> IF p = 0 THEN <<>> ELSE <<"n">> \o str(p)]

\* unicode(obj), the default textual form
unicode(o) == <<"#">> \o str(o.pk)

Objects == {Obj(p) : p \in PKs}

\* an object that is in no queryset (for direct assignment)
Stranger == Obj(MaxPk + 1)

DataValues == Objects \cup {None, Stranger}

\* querysets: sequences of objects with pairwise distinct primary keys
Querysets ==
    {q \in UNION {[1..n -> Objects] : n \in 0..MaxLen} :
        \A i, j \in 1..Len(q) : i # j => q[i].pk # q[j].pk}

Tokens == {str(p) : p \in PKs} \cup
          {<<"-", "1">>, <<" ", "1">>, <<"+", "2">>,
           BlankToken, <<"a", "b", "c">>, <<>>, <<"1", "a">>}

\* only the first token is consulted; two lists carry a second one
ValueLists == {<<>>} \cup {<<t>> : t \in Tokens} \cup
              {<<str(1), BlankToken>>, <<<<"a", "b", "c">>, BlankToken>>}

\* ------------------------------------------------- the field's operations
\* A field state is a record f = [data, formdata, passes]; passes counts the
\* iterations of the queryset that have been started.

Field(d, fd, n) == [data |-> d, formdata |-> fd, passes |-> n]

\* _set_data
_set_data_keep_token(f, d) == Field(d, f.formdata, f.passes)

_set_data(f, d) == Field(d, None, f.passes)

\* index of the first object whose pk is v, 0 when there is none
FirstPk(q, v) ==
    IF \E i \in 1..Len(q) : q[i].pk = v
    THEN CHOOSE i \in 1..Len(q) :
            q[i].pk = v /\ \A j \in 1..(i - 1) : q[j].pk # v
    ELSE 0

\* _get_data: the state after the read and the value returned
_get_data_truthy(q, f) ==
    IF f.formdata # None /\ f.formdata.val # 0
    THEN LET i == FirstPk(q, f.formdata.val)
             g == Field(f.data, f.formdata, f.passes + 1)
             h == IF i # 0 THEN _set_data(g, q[i]) ELSE g
         IN  [f |-> h, ret |-> h.data]
    ELSE [f |-> f, ret |-> f.data]

_get_data_clear_on_miss(q, f) ==
    IF f.formdata # None
    THEN LET i == FirstPk(q, f.formdata.val)
             g == Field(f.data, f.formdata, f.passes + 1)
             h == IF i # 0 THEN _set_data(g, q[i]) ELSE _set_data(g, g.data)
         IN  [f |-> h, ret |-> h.data]
    ELSE [f |-> f, ret |-> f.data]

_get_data(q, f) ==
    IF f.formdata # None
    THEN LET i == FirstPk(q, f.formdata.val)
             g == Field(f.data, f.formdata, f.passes + 1)
             h == IF i # 0 THEN _set_data(g, q[i]) ELSE g
         IN  [f |-> h, ret |-> h.data]
    ELSE [f |-> f, ret |-> f.data]

\* process_formdata: the state after the call and the exception raised
process_formdata_keep_data(f, valuelist) ==
    IF valuelist = <<>> THEN [f |-> f, err |-> "none"]
    ELSE IF valuelist[1] = BlankToken
         THEN [f |-> _set_data(f, None), err |-> "none"]
         ELSE LET n == int(valuelist[1])
              IN  IF n.kind = "ValueError"
                  THEN [f |-> f, err |-> "ValueError"]
                  ELSE [f |-> Field(f.data, n, f.passes), err |-> "none"]

process_formdata(f, valuelist) ==
    IF valuelist = <<>> THEN [f |-> f, err |-> "none"]
    ELSE IF valuelist[1] = BlankToken
         THEN [f |-> _set_data(f, None), err |-> "none"]
         ELSE LET g == Field(None, f.formdata, f.passes)
                  n == int(valuelist[1])
              IN  IF n.kind = "ValueError"
                  THEN [f |-> g, err |-> "ValueError"]
                  ELSE [f |-> Field(g.data, n, g.passes), err |-> "none"]

\* the for/else of pre_validate from the i-th object on
RECURSIVE validate_loop(_, _, _)
validate_loop(q, f, i) ==
    IF i > Len(q) THEN [f |-> f, err |-> "ValidationError"]
    ELSE LET r == _get_data(q, f)
         IN  IF r.ret = q[i] THEN [f |-> r.f, err |-> "none"]
             ELSE validate_loop(q, r.f, i + 1)

\* pre_validate
pre_validate_and(q, blank, f) ==
    LET r == _get_data(q, f)
    IN  IF (~blank) /\ r.ret # None
        THEN validate_loop(q, Field(r.f.data, r.f.formdata, r.f.passes + 1), 1)
        ELSE [f |-> r.f, err |-> "none"]

pre_validate_no_flag(q, blank, f) ==
    LET r == _get_data(q, f)
    IN  IF r.ret # None
        THEN validate_loop(q, Field(r.f.data, r.f.formdata, r.f.passes + 1), 1)
        ELSE [f |-> r.f, err |-> "none"]

pre_validate(q, blank, f) ==
    LET r == IF blank THEN _get_data(q, f) ELSE [f |-> f, ret |-> None]
        enter == (~blank) \/ r.ret # None
    IN  IF enter
        THEN validate_loop(q, Field(r.f.data, r.f.formdata, r.f.passes + 1), 1)
        ELSE [f |-> r.f, err |-> "none"]

\* _option
_option(value, label, selected) ==
    [value |-> value, label |-> label, selected |-> selected]

\* the loop of __iter__ over the queryset from the i-th object on
RECURSIVE iter_loop(_, _, _, _)
iter_loop(q, attr, f, i) ==
    IF i > Len(q) THEN [f |-> f, ret |-> <<>>]
    ELSE LET obj == q[i]
             label == IF attr # "" /\ obj[attr] # <<>> THEN obj[attr]
                      ELSE unicode(obj)
             r == _get_data(q, f)
             rest == iter_loop(q, attr, r.f, i + 1)
         IN  [f |-> rest.f,
              ret |-> <<_option(str(obj.pk), label, obj = r.ret)>> \o rest.ret]

\* __iter__, consumed to the end by __call__
__iter__no_blank(q, blank, attr, f) ==
    iter_loop(q, attr, Field(f.data, f.formdata, f.passes + 1), 1)

__iter__(q, blank, attr, f) ==
    LET r == IF blank THEN _get_data(q, f) ELSE [f |-> f, ret |-> None]
        first == IF blank THEN <<_option(BlankToken, <<>>, r.ret = None)>>
                 ELSE <<>>
        rest == iter_loop(q, attr, Field(r.f.data, r.f.formdata, r.f.passes + 1), 1)
    IN  [f |-> rest.f, ret |-> first \o rest.ret]

\* ------------------------------------------------------------- the state
Self == Field(_data, _formdata, passes)

Event(op, arg, ret, err) == [op |-> op, arg |-> arg, ret |-> ret, err |-> err]

\* __init__: _set_data(None), and queryset.all() is the first pass
Init ==
    /\ queryset \in Querysets
    /\ allow_blank \in BOOLEAN
    /\ label_attr \in {"", "name"}
    /\ _data = None
    /\ _formdata = None
    /\ passes = 1
    /\ last = Event("__init__", <<>>, None, "none")
    /\ prev = Event("__init__", <<>>, None, "none")
    /\ pc = "constructed"
    /\ submitted = <<>>

Config == <<queryset, allow_blank, label_attr>>

\* the call of an operation on the field: res is the operation's outcome,
\* n0 the pass count the call started from; last records the call and prev
\* the call before it (without its return value)
Bind(res, n0, op, arg, ret) ==
    /\ _data' = res.f.data
    /\ _formdata' = res.f.formdata
    /\ passes' = res.f.passes
    /\ last' = Event(op, arg, ret, IF "err" \in DOMAIN res THEN res.err ELSE "none")
    /\ prev' = Event(last.op, last.arg, None, last.err)
    /\ UNCHANGED Config

\* ----------------------------------------- a field used freely by a caller
\* (passes is the number of passes of the last call)
ProcessFormdata(valuelist) ==
    /\ Bind(process_formdata(Field(_data, _formdata, 0), valuelist), 0,
            "process_formdata", valuelist, None)
    /\ UNCHANGED <<pc, submitted>>

ReadData ==
    /\ LET r == _get_data(queryset, Field(_data, _formdata, 0))
       IN  Bind(r, 0, "_get_data", <<>>, r.ret)
    /\ UNCHANGED <<pc, submitted>>

WriteData(d) ==
    /\ Bind([f |-> _set_data(Field(_data, _formdata, 0), d)], 0, "_set_data", d, None)
    /\ UNCHANGED <<pc, submitted>>

PreValidate ==
    /\ Bind(pre_validate(queryset, allow_blank, Field(_data, _formdata, 0)), 0,
            "pre_validate", <<>>, None)
    /\ UNCHANGED <<pc, submitted>>

Call ==
    /\ LET r == __iter__(queryset, allow_blank, label_attr, Field(_data, _formdata, 0))
       IN  Bind(r, 0, "__call__", <<>>, r.ret)
    /\ UNCHANGED <<pc, submitted>>

Next ==
    \/ \E valuelist \in ValueLists : ProcessFormdata(valuelist)
    \/ ReadData
    \/ \E d \in DataValues : WriteData(d)
    \/ PreValidate
    \/ Call

Spec == Init /\ [][Next]_vars

\* --------------------------------------------------------------- a request
\* construction, one input processing, one validation, one rendering; an
\* exception of process_formdata ends the request (passes accumulates)
ReqProcess(valuelist) ==
    /\ pc = "constructed"
    /\ LET r == process_formdata(Self, valuelist)
       IN  /\ Bind(r, passes, "process_formdata", valuelist, None)
           /\ pc' = IF r.err = "none" THEN "processed" ELSE "aborted"
    /\ submitted' = valuelist

ReqValidate ==
    /\ pc = "processed"
    /\ Bind(pre_validate(queryset, allow_blank, Self), passes,
            "pre_validate", <<>>, None)
    /\ pc' = "validated"
    /\ UNCHANGED submitted

ReqRender ==
    /\ pc = "validated"
    /\ LET r == __iter__(queryset, allow_blank, label_attr, Self)
       IN  Bind(r, passes, "__call__", <<>>, r.ret)
    /\ pc' = "rendered"
    /\ UNCHANGED submitted

NextReq ==
    \/ \E valuelist \in ValueLists : ReqProcess(valuelist)
    \/ ReqValidate
    \/ ReqRender

SpecReq == Init /\ [][NextReq]_vars

\* ------------------------------------------------------------ properties
\* the value a read of data returns in the current state
Value == _get_data(queryset, Self).ret

InQueryset(o) == \E i \in 1..Len(queryset) : queryset[i] = o

HasPk(v) == \E i \in 1..Len(queryset) : queryset[i].pk = v

\* the previous call was process_formdata with a non-empty list
AfterSubmit == prev.op = "process_formdata" /\ prev.arg # <<>>

\* the previous call accepted an integer token
AfterIntSubmit == AfterSubmit /\ prev.arg[1] # BlankToken /\ prev.err = "none"

NonIntTokens == {<<"a", "b", "c">>, <<>>, <<"1", "a">>}

\* C1: submitting the string form of the primary key of an object o of the
\* queryset and then reading data yields o, whatever the field held before.
C1_RoundTrip ==
    (last.op = "_get_data" /\ AfterSubmit) =>
        \A i \in 1..Len(queryset) :
            prev.arg[1] = str(queryset[i].pk) => last.ret = queryset[i]

C1_Witness ==
    /\ last.op = "_get_data" /\ AfterSubmit
    /\ Len(queryset) = 3
    /\ prev.arg[1] = str(queryset[3].pk)
    /\ queryset[3].pk = 0
    /\ last.ret = queryset[3]

\* C2: submitting an integer token that matches no object and then running
\* pre_validate raises ValidationError, for both settings of allow_blank.
C2_InvalidChoice ==
    (last.op = "pre_validate" /\ AfterIntSubmit /\ ~HasPk(int(prev.arg[1]).val))
        => last.err = "ValidationError"

\* C3: submitting '__None' sets data to None with no pending token; a
\* pre_validate that follows passes iff allow_blank.
C3_Blank ==
    /\ (last.op = "process_formdata" /\ last.arg # <<>> /\ last.arg[1] = BlankToken)
          => (_data = None /\ _formdata = None /\ last.err = "none")
    /\ (last.op = "pre_validate" /\ AfterSubmit /\ prev.arg[1] = BlankToken)
          => last.err = (IF allow_blank THEN "none" ELSE "ValidationError")

C3_Witness ==
    /\ last.op = "pre_validate" /\ AfterSubmit /\ prev.arg[1] = BlankToken
    /\ ~allow_blank
    /\ Len(queryset) = 2
    /\ last.err = "ValidationError"

\* C4: a first token that is neither '__None' nor an integer literal makes
\* process_formdata raise ValueError; the request ends there, pre_validate
\* does not run and no ValidationError is produced.
C4_Coercion ==
    /\ (last.op = "process_formdata" /\ last.arg # <<>> /\ last.arg[1] \in NonIntTokens)
          => (last.err = "ValueError" /\ pc = "aborted" /\ ~ENABLED ReqValidate)
    /\ (submitted # <<>> /\ submitted[1] \in NonIntTokens)
          => (last.op = "process_formdata" /\ last.err # "ValidationError")

C4_Witness ==
    /\ last.op = "process_formdata"
    /\ last.arg = <<<<"a", "b", "c">>, BlankToken>>
    /\ last.err = "ValueError"
    /\ pc = "aborted"

\* C5: rendering yields one option per object, in queryset order, with the
\* object's primary key as value, exactly one of them selected when data
\* equals an object; with allow_blank a first option '__None' is added,
\* selected iff data is None.
C5_Options ==
    last.op = "__call__" =>
        LET n == Len(queryset)
            off == IF allow_blank THEN 1 ELSE 0
            opts == last.ret
        IN  /\ Len(opts) = n + off
            /\ \A i \in 1..n :
                  /\ int(opts[i + off].value) = [kind |-> "int", val |-> queryset[i].pk]
                  /\ opts[i + off].selected <=> (queryset[i] = Value)
            /\ InQueryset(Value) =>
                  Cardinality({i \in 1..n : opts[i + off].selected}) = 1
            /\ allow_blank =>
                  /\ opts[1].value = BlankToken
                  /\ opts[1].selected <=> (Value = None)

C5_Witness ==
    /\ last.op = "__call__"
    /\ allow_blank
    /\ Len(queryset) = 3
    /\ Len(last.ret) = 4
    /\ last.ret[3].selected
    /\ ~last.ret[1].selected

C7_Assign ==
    /\ last.op = "_set_data" => (_data = last.arg /\ _formdata = None)
    /\ (last.op = "_get_data" /\ prev.op = "_set_data") => last.ret = prev.arg

C7_Witness ==
    /\ last.op = "_get_data" /\ prev.op = "_set_data"
    /\ prev.arg = Stranger
    /\ last.ret = Stranger
    /\ Len(queryset) > 0

\* C8 as stated: after a submission a value and a pending token are never
\* held together, and the first read after it leaves no token pending.
C8_Collapse ==
    /\ (last.op = "process_formdata" /\ last.arg # <<>> /\ last.err = "none")
          => ~(_data # None /\ _formdata # None)
    /\ (last.op = "_get_data" /\ AfterIntSubmit) => _formdata = None

\* C8 amended: a value and a pending token are never held together; the
\* first read after the submission of an integer token binds the object and
\* clears the token when the token matches an object, and leaves the token
\* pending with data None when it matches none.
C8_CollapseOnMatch ==
    /\ ~(_data # None /\ _formdata # None)
    /\ (last.op = "_get_data" /\ AfterIntSubmit) =>
          LET n == int(prev.arg[1])
          IN  IF HasPk(n.val)
              THEN _formdata = None /\ _data # None /\ _data.pk = n.val
              ELSE _formdata = n /\ _data = None /\ last.ret = None

C8_Witness ==
    /\ last.op = "_get_data" /\ AfterIntSubmit
    /\ _formdata # None
    /\ Len(queryset) = 3

\* the request submitted an integer token
IntRequest ==
    submitted # <<>> /\ submitted[1] # BlankToken /\ int(submitted[1]).kind = "int"

\* C9 as stated: a request (construction, one process_formdata, one
\* pre_validate, one rendering) iterates the queryset at most four times,
\* for every integer token.
C9_FourPasses == (pc = "rendered" /\ IntRequest) => passes <= 4

\* C9 amended: at most four passes when the integer token matches an object;
\* a token that matches none stays pending and every read scans again:
\* 2n + 3 passes for n objects, n + 4 with allow_blank.
C9_PassesOnMatch ==
    (pc = "rendered" /\ IntRequest) =>
        IF HasPk(int(submitted[1]).val)
        THEN passes <= 4
        ELSE passes = (IF allow_blank THEN Len(queryset) + 4
                       ELSE 2 * Len(queryset) + 3)

C9_Witness ==
    /\ pc = "rendered" /\ IntRequest
    /\ HasPk(int(submitted[1]).val)
    /\ Len(queryset) = 3
    /\ passes = 4

\* C10 as stated: process_formdata of an empty list, or one that raises
\* ValueError, leaves data and the pending token unchanged.
C10_Frame ==
    [][(last'.op = "process_formdata" /\ (last'.arg = <<>> \/ last'.err = "ValueError"))
         => (_data' = _data /\ _formdata' = _formdata /\ Value' = Value)]_vars

\* C10 amended: an empty list leaves data and the pending token unchanged; a
\* ValueError leaves the pending token unchanged and data set to None.
C10_FrameEmpty ==
    [][last'.op = "process_formdata" =>
         /\ last'.arg = <<>> => (_data' = _data /\ _formdata' = _formdata /\ Value' = Value)
         /\ last'.err = "ValueError" => (_data' = None /\ _formdata' = _formdata)]_vars

C10_Witness ==
    /\ last.op = "process_formdata"
    /\ last.err = "ValueError"
    /\ prev.op = "_set_data" /\ prev.arg # None
    /\ _data = None

====
